---- MODULE Spec2Model ----
(***************************************************************************)
(* The ibc-reflect-send contract (contracts/ibc-reflect-send/src/          *)
(* contract.rs) as a state machine.  The state is the contract's storage   *)
(* (the Config singleton and the accounts bucket); every entry point is    *)
(* one action that runs the handler to completion on inputs drawn from     *)
(* small sets and records the call and its response in `last`.             *)
(*                                                                         *)
(* A handler is an operator from (storage, inputs) to a response record    *)
(* that carries the storage as the handler's own writes leave it.  The     *)
(* host's rollback of a failed invocation is deliberately not applied, so  *)
(* a write made before an error is detected would be visible in the state. *)
(***************************************************************************)
EXTENDS Integers, Sequences, FiniteSets, TLC

VARIABLES storage, last, lifecycle, reported

vars == <<storage, last, lifecycle, reported>>

----------------------------------------------------------------------------
(* Bounds of the model *)

\* Channel ids "channel-1" .. "channel-<NumChannels>" can be connected.
NumChannels == 2

----------------------------------------------------------------------------
(* Program constants *)

IBC_VERSION == "ibc-reflect"

PACKET_LIFETIME == 3600

----------------------------------------------------------------------------
(* Input domains *)

\* Option<T>: None is the empty sequence, Some(x) the one-element sequence.
None == <<>>

Some(x) == <<x>>

RECURSIVE Digits(_)
Digits(n) == IF n < 10 THEN <<n>> ELSE Append(Digits(n \div 10), n % 10)

\* The channel id "channel-<n>", held as the digits of n (the bytes that
\* distinguish the bucket keys).
ChannelIds == { Digits(n) : n \in 1..NumChannels }

Senders == {"creator", "somebody"}

RemoteAddrs == {"account-789", "account-456"}

\* The channel a token transfer is sent on is not a reflect channel: one id
\* that is never connected here, and one that can be.
TransferChannelIds == {Digits(0), Digits(1)}

\* env.block.time of an invocation (seconds); a stored record's
\* last_update_time is 0 until a Balances acknowledgement writes one.
Times == {1}

Coin(amount, denom) == [denom |-> denom, amount |-> amount]

\* info.sent_funds: no coin, one coin, two different coins, and a vector
\* that holds the same coin twice.
SentFunds ==
    { <<>>,
      <<Coin(15, "uatom")>>,
      <<Coin(15, "uatom"), Coin(7, "uluna")>>,
      <<Coin(15, "uatom"), Coin(15, "uatom")>> }

\* The balances a Balances acknowledgement reports.
BalanceLists == { <<>>, <<Coin(15, "uatom"), Coin(7, "uluna")>> }

\* The application messages of a Dispatch packet (opaque to the contract).
MsgLists == { <<>>, <<"bank_send">> }

Orders == {"ORDER_ORDERED", "ORDER_UNORDERED"}

Versions == {IBC_VERSION, "reflect"}

\* channel.counterparty_version: Option<String>
CounterpartyVersions == {None} \cup { Some(v) : v \in Versions }

AckErrors == {"invalid packet"}

----------------------------------------------------------------------------
(* Storage: the Config singleton and the accounts bucket.  A bucket is a   *)
(* function from the keys it holds to the records saved under them.        *)

Config(admin) == [admin |-> admin]

AccountData(remote_addr, remote_balance, last_update_time) ==
    [remote_addr |-> remote_addr,
     remote_balance |-> remote_balance,
     last_update_time |-> last_update_time]

AccountData_default == AccountData(None, <<>>, 0)

EmptyBucket == [k \in {} |-> AccountData_default]

\* The storage of a freshly instantiated contract, before init has run.
EmptyStorage == [accounts |-> EmptyBucket]

ErrNotFound == "ibc_reflect_send::state::AccountData not found"

bucket_may_load(bucket, key) ==
    IF key \in DOMAIN bucket THEN Some(bucket[key]) ELSE None

bucket_load(bucket, key) ==
    IF key \in DOMAIN bucket
    THEN [ok |-> TRUE, val |-> bucket[key]]
    ELSE [ok |-> FALSE, err |-> ErrNotFound]

bucket_save(bucket, key, data) ==
    [k \in (DOMAIN bucket) \cup {key} |-> IF k = key THEN data ELSE bucket[k]]

bucket_remove(bucket, key) ==
    [k \in (DOMAIN bucket) \ {key} |-> bucket[k]]

----------------------------------------------------------------------------
(* Responses.  `storage` is the storage as the handler's writes left it at *)
(* the point where it returned.                                            *)

attr(key, value) == <<key, value>>

Ok(st, messages, attributes) ==
    [result |-> "ok", storage |-> st,
     messages |-> messages, attributes |-> attributes]

Err(st, msg) ==
    [result |-> msg, storage |-> st,
     messages |-> <<>>, attributes |-> <<>>]

----------------------------------------------------------------------------
(* The codec, as far as the contract depends on it: an encoded value is a  *)
(* pair <<variant tag, body>>; decoding fails on a tag that is no variant  *)
(* of the expected type.                                                   *)

ErrParse == "Error parsing into type"

Dispatch(msgs) == [kind |-> "dispatch", msgs |-> msgs]

WhoAmI == [kind |-> "who_am_i"]

Balances == [kind |-> "balances"]

to_binary_PacketMsg(packet) ==
    IF packet.kind = "dispatch" THEN <<"dispatch", packet.msgs>>
    ELSE <<packet.kind, <<>>>>

from_slice_PacketMsg(data) ==
    IF data[1] = "dispatch" THEN [ok |-> TRUE, val |-> Dispatch(data[2])]
    ELSE IF data[1] = "who_am_i" THEN [ok |-> TRUE, val |-> WhoAmI]
    ELSE IF data[1] = "balances" THEN [ok |-> TRUE, val |-> Balances]
    ELSE [ok |-> FALSE, err |-> ErrParse]

AckOk(res) == [tag |-> "Ok", res |-> res]

AckErr(e) == [tag |-> "Err", error |-> e]

to_binary_AcknowledgementMsg(ack) ==
    IF ack.tag = "Ok" THEN <<"ok", ack.res>> ELSE <<"error", ack.error>>

from_slice_AcknowledgementMsg(data) ==
    IF data[1] = "ok" THEN [ok |-> TRUE, val |-> AckOk(data[2])]
    ELSE IF data[1] = "error" THEN [ok |-> TRUE, val |-> AckErr(data[2])]
    ELSE [ok |-> FALSE, err |-> ErrParse]

WhoAmIResponse(account) == [account |-> account]

BalancesResponse(account, balances) ==
    [account |-> account, balances |-> balances]

\* Bytes that decode to no PacketMsg and to no AcknowledgementMsg.
Garbage == <<"reflect_code_id", <<>>>>

----------------------------------------------------------------------------
(* Outgoing messages *)

SendPacket(channel_id, data, timeout_block, timeout_timestamp) ==
    [type |-> "send_packet", channel_id |-> channel_id, data |-> data,
     timeout_block |-> timeout_block, timeout_timestamp |-> timeout_timestamp]

Transfer(channel_id, to_address, amount, timeout_block, timeout_timestamp) ==
    [type |-> "transfer", channel_id |-> channel_id,
     to_address |-> to_address, amount |-> amount,
     timeout_block |-> timeout_block, timeout_timestamp |-> timeout_timestamp]

----------------------------------------------------------------------------
(* Entry points: init and the commands *)

ErrOnlyAdminSet == "Only admin may set new admin"

ErrOnlyAdminSend == "Only admin may send messages"

ErrNoFunds == "you must send the coins you with to ibc transfer"

ErrOneCoin == "you can only ibc transfer one coin"

ErrNoRemoteAddr == "We don't have the remote address for this channel"

\* Mutant: the admin is a fixed address, not the sender of init.
Mut_init_fixed_admin(st, sender) ==
    Ok([config |-> Config("creator"), accounts |-> st.accounts],
       <<>>, <<attr("action", "init")>>)

init(st, sender) ==
    Ok([config |-> Config(sender), accounts |-> st.accounts],
       <<>>, <<attr("action", "init")>>)

\* Mutant: any sender may replace the admin.
Mut_update_admin_no_check(st, sender, new_admin) ==
    Ok([st EXCEPT !.config = Config(new_admin)], <<>>,
       <<attr("action", "handle_update_admin"),
         attr("new_admin", new_admin)>>)

handle_update_admin(st, sender, new_admin) ==
    IF sender # st.config.admin
    THEN Err(st, ErrOnlyAdminSet)
    ELSE Ok([st EXCEPT !.config = Config(new_admin)], <<>>,
            <<attr("action", "handle_update_admin"),
              attr("new_admin", new_admin)>>)

\* Mutant: the channel is looked up before the sender is checked.
Mut_send_msgs_lookup_first(st, time, sender, channel_id, msgs) ==
    IF ~bucket_load(st.accounts, channel_id).ok
    THEN Err(st, bucket_load(st.accounts, channel_id).err)
    ELSE IF sender # st.config.admin
    THEN Err(st, ErrOnlyAdminSend)
    ELSE Ok(st,
            <<SendPacket(channel_id, to_binary_PacketMsg(Dispatch(msgs)),
                         None, Some(time + PACKET_LIFETIME))>>,
            <<attr("action", "handle_send_msgs")>>)

\* Mutant: sending messages stamps the account with the time of the call.
Mut_send_msgs_stamps(st, time, sender, channel_id, msgs) ==
    IF sender # st.config.admin
    THEN Err(st, ErrOnlyAdminSend)
    ELSE IF ~bucket_load(st.accounts, channel_id).ok
    THEN Err(st, bucket_load(st.accounts, channel_id).err)
    ELSE Ok([st EXCEPT !.accounts =
                bucket_save(@, channel_id,
                    [st.accounts[channel_id] EXCEPT !.last_update_time = time])],
            <<SendPacket(channel_id, to_binary_PacketMsg(Dispatch(msgs)),
                         None, Some(time + PACKET_LIFETIME))>>,
            <<attr("action", "handle_send_msgs")>>)

handle_send_msgs(st, time, sender, channel_id, msgs) ==
    IF sender # st.config.admin
    THEN Err(st, ErrOnlyAdminSend)
    ELSE IF ~bucket_load(st.accounts, channel_id).ok
    THEN Err(st, bucket_load(st.accounts, channel_id).err)
    ELSE Ok(st,
            <<SendPacket(channel_id, to_binary_PacketMsg(Dispatch(msgs)),
                         None, Some(time + PACKET_LIFETIME))>>,
            <<attr("action", "handle_send_msgs")>>)

\* Mutant: the packet is sent without looking the channel up.
Mut_check_balance_no_lookup(st, time, sender, channel_id) ==
    IF sender # st.config.admin
    THEN Err(st, ErrOnlyAdminSend)
    ELSE Ok(st,
            <<SendPacket(channel_id, to_binary_PacketMsg(Balances),
                         None, Some(time + PACKET_LIFETIME))>>,
            <<attr("action", "handle_check_remote_balance")>>)

handle_check_remote_balance(st, time, sender, channel_id) ==
    IF sender # st.config.admin
    THEN Err(st, ErrOnlyAdminSend)
    ELSE IF ~bucket_load(st.accounts, channel_id).ok
    THEN Err(st, bucket_load(st.accounts, channel_id).err)
    ELSE Ok(st,
            <<SendPacket(channel_id, to_binary_PacketMsg(Balances),
                         None, Some(time + PACKET_LIFETIME))>>,
            <<attr("action", "handle_check_remote_balance")>>)

\* Mutant: the transfer is sent on the reflect channel.
Mut_send_funds_on_reflect(st, time, sent_funds, reflect_channel_id, transfer_channel_id) ==
    IF Len(sent_funds) = 0
    THEN Err(st, ErrNoFunds)
    ELSE IF Len(sent_funds) > 1
    THEN Err(st, ErrOneCoin)
    ELSE LET amount == sent_funds[1]
             data == bucket_load(st.accounts, reflect_channel_id)
         IN  IF ~data.ok
             THEN Err(st, data.err)
             ELSE IF data.val.remote_addr = None
             THEN Err(st, ErrNoRemoteAddr)
             ELSE Ok(st,
                     <<Transfer(reflect_channel_id, data.val.remote_addr[1],
                                amount, None, Some(time + PACKET_LIFETIME))>>,
                     <<attr("action", "handle_send_funds")>>)

\* Mutant: the transfer channel must have an account as well.
Mut_send_funds_checks_transfer(st, time, sent_funds, reflect_channel_id, transfer_channel_id) ==
    IF Len(sent_funds) = 0
    THEN Err(st, ErrNoFunds)
    ELSE IF Len(sent_funds) > 1
    THEN Err(st, ErrOneCoin)
    ELSE LET amount == sent_funds[1]
             data == bucket_load(st.accounts, reflect_channel_id)
         IN  IF ~data.ok
             THEN Err(st, data.err)
             ELSE IF data.val.remote_addr = None
             THEN Err(st, ErrNoRemoteAddr)
             ELSE IF ~bucket_load(st.accounts, transfer_channel_id).ok
             THEN Err(st, bucket_load(st.accounts, transfer_channel_id).err)
             ELSE Ok(st,
                     <<Transfer(transfer_channel_id, data.val.remote_addr[1],
                                amount, None, Some(time + PACKET_LIFETIME))>>,
                     <<attr("action", "handle_send_funds")>>)

handle_send_funds(st, time, sent_funds, reflect_channel_id, transfer_channel_id) ==
    IF Len(sent_funds) = 0
    THEN Err(st, ErrNoFunds)
    ELSE IF Len(sent_funds) > 1
    THEN Err(st, ErrOneCoin)
    ELSE LET amount == sent_funds[1]
             data == bucket_load(st.accounts, reflect_channel_id)
         IN  IF ~data.ok
             THEN Err(st, data.err)
             ELSE IF data.val.remote_addr = None
             THEN Err(st, ErrNoRemoteAddr)
             ELSE Ok(st,
                     <<Transfer(transfer_channel_id, data.val.remote_addr[1],
                                amount, None, Some(time + PACKET_LIFETIME))>>,
                     <<attr("action", "handle_send_funds")>>)

----------------------------------------------------------------------------
(* Entry points: queries (read-only: Deps, not DepsMut) *)

query_account(st, channel_id) ==
    bucket_load(st.accounts, channel_id)

\* Order of the bucket's keys: bytewise lexicographic, a proper prefix first.
BytesLess(a, b) ==
    \/ Len(a) < Len(b) /\ \A i \in 1..Len(a) : a[i] = b[i]
    \/ \E i \in 1..Len(a) :
          /\ i <= Len(b)
          /\ a[i] < b[i]
          /\ \A j \in 1..(i - 1) : a[j] = b[j]

RECURSIVE bucket_range_ascending(_)
bucket_range_ascending(bucket) ==
    IF DOMAIN bucket = {} THEN <<>>
    ELSE LET k == CHOOSE x \in DOMAIN bucket :
                      \A y \in DOMAIN bucket : y = x \/ BytesLess(x, y)
         IN  <<<<k, bucket[k]>>>> \o bucket_range_ascending(bucket_remove(bucket, k))

AccountInfo_convert(channel_id, account) ==
    [channel_id |-> channel_id,
     remote_addr |-> account.remote_addr,
     remote_balance |-> account.remote_balance,
     last_update_time |-> account.last_update_time]

\* Mutant: accounts whose remote address is not known yet are left out.
Mut_list_known_accounts(st) ==
    LET r == SelectSeq(bucket_range_ascending(st.accounts),
                       LAMBDA e : e[2].remote_addr # None)
    IN  [accounts |-> [i \in 1..Len(r) |-> AccountInfo_convert(r[i][1], r[i][2])]]

query_list_accounts(st) ==
    LET r == bucket_range_ascending(st.accounts)
    IN  [accounts |-> [i \in 1..Len(r) |-> AccountInfo_convert(r[i][1], r[i][2])]]

query_admin(st) == [admin |-> st.config.admin]

----------------------------------------------------------------------------
(* Entry points: the channel handshake *)

ErrOrder == "Only supports ordered channels"

ErrVersion == "Must set version to ibc-reflect"

ErrCounterVersion == "Counterparty version must be ibc-reflect"

\* Mutant: the counterparty version is not checked.
Mut_open_ignore_counterparty(st, channel) ==
    IF channel.order # "ORDER_ORDERED"
    THEN Err(st, ErrOrder)
    ELSE IF channel.version # IBC_VERSION
    THEN Err(st, ErrVersion)
    ELSE Ok(st, <<>>, <<>>)

ibc_channel_open(st, channel) ==
    IF channel.order # "ORDER_ORDERED"
    THEN Err(st, ErrOrder)
    ELSE IF channel.version # IBC_VERSION
    THEN Err(st, ErrVersion)
    ELSE IF channel.counterparty_version # None
            /\ channel.counterparty_version[1] # IBC_VERSION
    THEN Err(st, ErrCounterVersion)
    ELSE Ok(st, <<>>, <<>>)

\* Mutant: a record already stored for the channel is preserved.
Mut_connect_preserve(st, time, channel_id) ==
    Ok(IF channel_id \in DOMAIN st.accounts THEN st
       ELSE [st EXCEPT !.accounts = bucket_save(@, channel_id, AccountData_default)],
       <<SendPacket(channel_id, to_binary_PacketMsg(WhoAmI),
                    None, Some(time + PACKET_LIFETIME))>>,
       <<attr("action", "ibc_connect"), attr("channel_id", channel_id)>>)

\* Mutant: the WhoAmI packet expires by block height, not by time.
Mut_connect_height_timeout(st, time, channel_id) ==
    Ok([st EXCEPT !.accounts = bucket_save(@, channel_id, AccountData_default)],
       <<SendPacket(channel_id, to_binary_PacketMsg(WhoAmI),
                    Some(time + PACKET_LIFETIME), None)>>,
       <<attr("action", "ibc_connect"), attr("channel_id", channel_id)>>)

ibc_channel_connect(st, time, channel_id) ==
    Ok([st EXCEPT !.accounts = bucket_save(@, channel_id, AccountData_default)],
       <<SendPacket(channel_id, to_binary_PacketMsg(WhoAmI),
                    None, Some(time + PACKET_LIFETIME))>>,
       <<attr("action", "ibc_connect"), attr("channel_id", channel_id)>>)

\* Mutant: the record is kept once its remote address is known.
Mut_close_keep_known(st, channel_id) ==
    Ok(IF channel_id \in DOMAIN st.accounts
          /\ st.accounts[channel_id].remote_addr # None
       THEN st
       ELSE [st EXCEPT !.accounts = bucket_remove(@, channel_id)],
       <<>>,
       <<attr("action", "ibc_close"), attr("channel_id", channel_id)>>)

\* Mutant: closing one channel forgets every account.
Mut_close_removes_all(st, channel_id) ==
    Ok([st EXCEPT !.accounts = EmptyBucket],
       <<>>,
       <<attr("action", "ibc_close"), attr("channel_id", channel_id)>>)

ibc_channel_close(st, channel_id) ==
    Ok([st EXCEPT !.accounts = bucket_remove(@, channel_id)],
       <<>>,
       <<attr("action", "ibc_close"), attr("channel_id", channel_id)>>)

----------------------------------------------------------------------------
(* Entry points: packets *)

ErrNoAccount == "no account to update"

ErrRemoteChanged == "remote account changed"

\* Mutant: the inbound packet is decoded, and an undecodable one is refused.
Mut_receive_decodes(st, packet) ==
    IF from_slice_PacketMsg(packet.data).ok
    THEN [result |-> "ok", storage |-> st, acknowledgement |-> "{}",
          messages |-> <<>>,
          attributes |-> <<attr("action", "ibc_packet_ack")>>]
    ELSE [result |-> ErrParse, storage |-> st, acknowledgement |-> "",
          messages |-> <<>>, attributes |-> <<>>]

\* _packet is not read.
ibc_packet_receive(st, packet) ==
    [result |-> "ok", storage |-> st, acknowledgement |-> "{}",
     messages |-> <<>>, attributes |-> <<attr("action", "ibc_packet_ack")>>]

\* Mutant: a Dispatch acknowledgement requires the channel's account.
Mut_dispatch_requires_account(st, caller, ack) ==
    IF bucket_may_load(st.accounts, caller) = None
    THEN Err(st, ErrNoAccount)
    ELSE Ok(st, <<>>, <<attr("action", "acknowledge_dispatch")>>)

\* Mutant: an error reported by the counterpart fails the invocation.
Mut_dispatch_err_aborts(st, caller, ack) ==
    IF ack.tag = "Err"
    THEN Err(st, ack.error)
    ELSE Ok(st, <<>>, <<attr("action", "acknowledge_dispatch")>>)

acknowledge_dispatch(st, caller, ack) ==
    Ok(st, <<>>, <<attr("action", "acknowledge_dispatch")>>)

\* Mutant: a missing account is created instead of being an error.
Mut_who_am_i_upsert(st, caller, ack) ==
    IF ack.tag = "Err"
    THEN Ok(st, <<>>,
            <<attr("action", "acknowledge_who_am_i"), attr("error", ack.error)>>)
    ELSE LET acct == bucket_may_load(st.accounts, caller)
             updated ==
                 IF acct = None
                 THEN AccountData(Some(ack.res.account), <<>>, 0)
                 ELSE IF acct[1].remote_addr = None
                 THEN [acct[1] EXCEPT !.remote_addr = Some(ack.res.account)]
                 ELSE acct[1]
         IN  Ok([st EXCEPT !.accounts = bucket_save(@, caller, updated)],
                <<>>, <<attr("action", "acknowledge_who_am_i")>>)

\* Mutant: the reported address is written whether or not one is set.
Mut_who_am_i_overwrite(st, caller, ack) ==
    IF ack.tag = "Err"
    THEN Ok(st, <<>>,
            <<attr("action", "acknowledge_who_am_i"), attr("error", ack.error)>>)
    ELSE LET acct == bucket_may_load(st.accounts, caller)
         IN  IF acct = None
             THEN Err(st, ErrNoAccount)
             ELSE Ok([st EXCEPT !.accounts = bucket_save(@, caller,
                         [acct[1] EXCEPT !.remote_addr = Some(ack.res.account)])],
                     <<>>, <<attr("action", "acknowledge_who_am_i")>>)

\* Mutant: once the address is learned, the balances are asked for.
Mut_who_am_i_then_balances(st, caller, ack) ==
    IF ack.tag = "Err"
    THEN Ok(st, <<>>,
            <<attr("action", "acknowledge_who_am_i"), attr("error", ack.error)>>)
    ELSE LET acct == bucket_may_load(st.accounts, caller)
         IN  IF acct = None
             THEN Err(st, ErrNoAccount)
             ELSE LET updated ==
                         IF acct[1].remote_addr = None
                         THEN [acct[1] EXCEPT !.remote_addr = Some(ack.res.account)]
                         ELSE acct[1]
                  IN  Ok([st EXCEPT !.accounts = bucket_save(@, caller, updated)],
                         <<SendPacket(caller, to_binary_PacketMsg(Balances),
                                      None, None)>>,
                         <<attr("action", "acknowledge_who_am_i")>>)

acknowledge_who_am_i(st, caller, ack) ==
    IF ack.tag = "Err"
    THEN Ok(st, <<>>,
            <<attr("action", "acknowledge_who_am_i"), attr("error", ack.error)>>)
    ELSE LET res == ack.res
             acct == bucket_may_load(st.accounts, caller)
         IN  IF acct = None
             THEN Err(st, ErrNoAccount)
             ELSE LET updated ==
                         IF acct[1].remote_addr = None
                         THEN [acct[1] EXCEPT !.remote_addr = Some(res.account)]
                         ELSE acct[1]
                  IN  Ok([st EXCEPT !.accounts = bucket_save(@, caller, updated)],
                         <<>>, <<attr("action", "acknowledge_who_am_i")>>)

\* Mutant: the reported address is not compared with the stored one.
Mut_balances_unchecked(st, time, caller, ack) ==
    IF ack.tag = "Err"
    THEN Ok(st, <<>>,
            <<attr("action", "acknowledge_balances"), attr("error", ack.error)>>)
    ELSE LET acct == bucket_may_load(st.accounts, caller)
         IN  IF acct = None
             THEN Err(st, ErrNoAccount)
             ELSE Ok([st EXCEPT !.accounts =
                         bucket_save(@, caller,
                             AccountData(Some(ack.res.account),
                                         ack.res.balances, time))],
                     <<>>, <<attr("action", "acknowledge_balances")>>)

\* Mutant: the record keeps its old last_update_time.
Mut_balances_keep_time(st, time, caller, ack) ==
    IF ack.tag = "Err"
    THEN Ok(st, <<>>,
            <<attr("action", "acknowledge_balances"), attr("error", ack.error)>>)
    ELSE LET acct == bucket_may_load(st.accounts, caller)
         IN  IF acct = None
             THEN Err(st, ErrNoAccount)
             ELSE IF acct[1].remote_addr # None
                     /\ acct[1].remote_addr[1] # ack.res.account
             THEN Err(st, ErrRemoteChanged)
             ELSE Ok([st EXCEPT !.accounts =
                         bucket_save(@, caller,
                             AccountData(Some(ack.res.account), ack.res.balances,
                                         acct[1].last_update_time))],
                     <<>>, <<attr("action", "acknowledge_balances")>>)

\* Mutant: a missing account is created from the reported balances.
Mut_balances_upsert(st, time, caller, ack) ==
    IF ack.tag = "Err"
    THEN Ok(st, <<>>,
            <<attr("action", "acknowledge_balances"), attr("error", ack.error)>>)
    ELSE LET acct == bucket_may_load(st.accounts, caller)
         IN  IF acct # None
                /\ acct[1].remote_addr # None
                /\ acct[1].remote_addr[1] # ack.res.account
             THEN Err(st, ErrRemoteChanged)
             ELSE Ok([st EXCEPT !.accounts =
                         bucket_save(@, caller,
                             AccountData(Some(ack.res.account),
                                         ack.res.balances, time))],
                     <<>>, <<attr("action", "acknowledge_balances")>>)

\* Mutant: an error reported by the counterpart fails the invocation.
Mut_balances_err_aborts(st, time, caller, ack) ==
    IF ack.tag = "Err"
    THEN Err(st, ack.error)
    ELSE LET acct == bucket_may_load(st.accounts, caller)
         IN  IF acct = None
             THEN Err(st, ErrNoAccount)
             ELSE IF acct[1].remote_addr # None
                     /\ acct[1].remote_addr[1] # ack.res.account
             THEN Err(st, ErrRemoteChanged)
             ELSE Ok([st EXCEPT !.accounts =
                         bucket_save(@, caller,
                             AccountData(Some(ack.res.account),
                                         ack.res.balances, time))],
                     <<>>, <<attr("action", "acknowledge_balances")>>)

\* Mutant: the balances are saved before the address is compared.
Mut_balances_write_then_check(st, time, caller, ack) ==
    IF ack.tag = "Err"
    THEN Ok(st, <<>>,
            <<attr("action", "acknowledge_balances"), attr("error", ack.error)>>)
    ELSE LET acct == bucket_may_load(st.accounts, caller)
             written == [st EXCEPT !.accounts =
                            bucket_save(@, caller,
                                AccountData(Some(ack.res.account),
                                            ack.res.balances, time))]
         IN  IF acct = None
             THEN Err(st, ErrNoAccount)
             ELSE IF acct[1].remote_addr # None
                     /\ acct[1].remote_addr[1] # ack.res.account
             THEN Err(written, ErrRemoteChanged)
             ELSE Ok(written, <<>>, <<attr("action", "acknowledge_balances")>>)

\* Mutant: the balances and the time are written, the address is left as
\* it was.
Mut_balances_keep_addr(st, time, caller, ack) ==
    IF ack.tag = "Err"
    THEN Ok(st, <<>>,
            <<attr("action", "acknowledge_balances"), attr("error", ack.error)>>)
    ELSE LET acct == bucket_may_load(st.accounts, caller)
         IN  IF acct = None
             THEN Err(st, ErrNoAccount)
             ELSE IF acct[1].remote_addr # None
                     /\ acct[1].remote_addr[1] # ack.res.account
             THEN Err(st, ErrRemoteChanged)
             ELSE Ok([st EXCEPT !.accounts =
                         bucket_save(@, caller,
                             AccountData(acct[1].remote_addr, ack.res.balances,
                                         time))],
                     <<>>, <<attr("action", "acknowledge_balances")>>)

acknowledge_balances(st, time, caller, ack) ==
    IF ack.tag = "Err"
    THEN Ok(st, <<>>,
            <<attr("action", "acknowledge_balances"), attr("error", ack.error)>>)
    ELSE LET res == ack.res
             acct == bucket_may_load(st.accounts, caller)
         IN  IF acct = None
             THEN Err(st, ErrNoAccount)
             ELSE IF acct[1].remote_addr # None
                     /\ acct[1].remote_addr[1] # res.account
             THEN Err(st, ErrRemoteChanged)
             ELSE Ok([st EXCEPT !.accounts =
                         bucket_save(@, caller,
                             AccountData(Some(res.account), res.balances, time))],
                     <<>>, <<attr("action", "acknowledge_balances")>>)

ibc_packet_ack(st, time, ack) ==
    LET caller == ack.original_packet.src.channel_id
        msg == from_slice_PacketMsg(ack.original_packet.data)
        res == from_slice_AcknowledgementMsg(ack.acknowledgement)
    IN  IF ~msg.ok
        THEN Err(st, msg.err)
        ELSE IF ~res.ok
        THEN Err(st, res.err)
        ELSE IF msg.val.kind = "dispatch"
        THEN acknowledge_dispatch(st, caller, res.val)
        ELSE IF msg.val.kind = "who_am_i"
        THEN acknowledge_who_am_i(st, caller, res.val)
        ELSE acknowledge_balances(st, time, caller, res.val)

\* Mutant: the packet that timed out is sent again.
Mut_timeout_retries(st, packet) ==
    Ok(st,
       <<SendPacket(packet.src.channel_id, packet.data, None, None)>>,
       <<attr("action", "ibc_packet_timeout")>>)

\* _packet is not read.
ibc_packet_timeout(st, packet) ==
    Ok(st, <<>>, <<attr("action", "ibc_packet_timeout")>>)

----------------------------------------------------------------------------
(* The state machine *)

\* `lifecycle` is history, not contract state: for each channel id, whether
\* the host has never run ibc_channel_connect for it ("never"), or which of
\* ibc_channel_connect ("connected") and ibc_channel_close ("closed") it ran
\* last.

\* `reported` is history too: for each channel id, the account of the first
\* WhoAmI or Balances success acknowledgement that ibc_packet_ack processed
\* with an Ok result on the channel since the host last ran
\* ibc_channel_connect for it with no ibc_channel_close after; None if there
\* is no such acknowledgement.

\* What the caller sees of a handler's return value.
Response(r) == [f \in (DOMAIN r) \ {"storage"} |-> r[f]]

\* One invocation: `last` keeps the call, what it returned, and the storage it
\* started from.
\* The history of reported accounts after the invocation `call` returned r.
Reported(call, r, life) ==
    IF call.op \in {"ibc_channel_connect", "ibc_channel_close"}
    THEN [reported EXCEPT ![call.channel_id] = None]
    ELSE IF /\ call.op = "ibc_packet_ack"
            /\ call.kind \in {"who_am_i_ok", "balances_ok"}
            /\ r.result = "ok"
            /\ life[call.ack.original_packet.src.channel_id] = "connected"
            /\ reported[call.ack.original_packet.src.channel_id] = None
    THEN [reported EXCEPT ![call.ack.original_packet.src.channel_id] =
             Some(call.ack.acknowledgement[2].account)]
    ELSE reported

Invoke(call, r, life) ==
    /\ storage' = r.storage
    /\ last' = [call |-> call, response |-> Response(r), before |-> storage]
    /\ lifecycle' = life
    /\ reported' = Reported(call, r, life)

Query(call, data) ==
    /\ last' = [call |-> call, response |-> data, before |-> storage]
    /\ UNCHANGED <<storage, lifecycle, reported>>

Init ==
    \E sender \in Senders :
        /\ storage = init(EmptyStorage, sender).storage
        /\ last = [call |-> [op |-> "init", sender |-> sender],
                   response |-> Response(init(EmptyStorage, sender)),
                   before |-> EmptyStorage]
        /\ lifecycle = [c \in ChannelIds |-> "never"]
        /\ reported = [c \in ChannelIds |-> None]

UpdateAdmin ==
    \E sender \in Senders, admin \in Senders :
        Invoke([op |-> "update_admin", sender |-> sender, admin |-> admin],
               handle_update_admin(storage, sender, admin), lifecycle)

SendMsgs ==
    \E time \in Times, sender \in Senders, channel_id \in ChannelIds,
       msgs \in MsgLists :
        Invoke([op |-> "send_msgs", time |-> time, sender |-> sender,
                channel_id |-> channel_id, msgs |-> msgs],
               handle_send_msgs(storage, time, sender, channel_id, msgs),
               lifecycle)

CheckRemoteBalance ==
    \E time \in Times, sender \in Senders, channel_id \in ChannelIds :
        Invoke([op |-> "check_remote_balance", time |-> time,
                sender |-> sender, channel_id |-> channel_id],
               handle_check_remote_balance(storage, time, sender, channel_id),
               lifecycle)

SendFunds ==
    \E time \in Times, sender \in Senders,
       sent_funds \in SentFunds,
       reflect_channel_id \in ChannelIds,
       transfer_channel_id \in TransferChannelIds :
        Invoke([op |-> "send_funds", time |-> time, sender |-> sender,
                sent_funds |-> sent_funds,
                reflect_channel_id |-> reflect_channel_id,
                transfer_channel_id |-> transfer_channel_id],
               handle_send_funds(storage, time, sent_funds,
                                 reflect_channel_id, transfer_channel_id),
               lifecycle)

QueryAccount ==
    \E channel_id \in ChannelIds :
        Query([op |-> "query_account", channel_id |-> channel_id],
              query_account(storage, channel_id))

QueryListAccounts ==
    Query([op |-> "query_list_accounts"], query_list_accounts(storage))

QueryAdmin ==
    Query([op |-> "query_admin"], query_admin(storage))

IbcChannelOpen ==
    \E order \in Orders, version \in Versions,
       counterparty_version \in CounterpartyVersions :
        LET channel == [order |-> order,
                        version |-> version,
                        counterparty_version |-> counterparty_version]
        IN  Invoke([op |-> "ibc_channel_open", channel |-> channel],
                   ibc_channel_open(storage, channel), lifecycle)

IbcChannelConnect ==
    \E time \in Times, channel_id \in ChannelIds :
        Invoke([op |-> "ibc_channel_connect", time |-> time,
                channel_id |-> channel_id],
               ibc_channel_connect(storage, time, channel_id),
               [lifecycle EXCEPT ![channel_id] = "connected"])

IbcChannelClose ==
    \E channel_id \in ChannelIds :
        Invoke([op |-> "ibc_channel_close", channel_id |-> channel_id],
               ibc_channel_close(storage, channel_id),
               [lifecycle EXCEPT ![channel_id] = "closed"])

\* A packet as the channel layer hands it over: its source channel and its
\* payload.
IbcPacket(channel_id, data) ==
    [src |-> [channel_id |-> channel_id], data |-> data]

\* Payloads of packets: an encoded PacketMsg, or bytes that are none.
PacketData == {to_binary_PacketMsg(WhoAmI), Garbage}

IbcPacketReceive ==
    \E channel_id \in ChannelIds, data \in PacketData :
        Invoke([op |-> "ibc_packet_receive",
                packet |-> IbcPacket(channel_id, data)],
               ibc_packet_receive(storage, IbcPacket(channel_id, data)),
               lifecycle)

IbcPacketTimeout ==
    \E channel_id \in ChannelIds, data \in PacketData :
        Invoke([op |-> "ibc_packet_timeout",
                packet |-> IbcPacket(channel_id, data)],
               ibc_packet_timeout(storage, IbcPacket(channel_id, data)),
               lifecycle)

\* An acknowledgement as the channel layer delivers it: the original packet
\* (its source channel and its encoded PacketMsg) and the encoded reply.
IbcAcknowledgement(channel_id, data, acknowledgement) ==
    [original_packet |-> [src |-> [channel_id |-> channel_id], data |-> data],
     acknowledgement |-> acknowledgement]

Ack(st, time, kind, ack) ==
    Invoke([op |-> "ibc_packet_ack", time |-> time, kind |-> kind, ack |-> ack],
           ibc_packet_ack(st, time, ack), lifecycle)

AckDispatch ==
    \E time \in Times, channel_id \in ChannelIds,
       msgs \in MsgLists :
        \/ Ack(storage, time, "dispatch_ok",
               IbcAcknowledgement(channel_id, to_binary_PacketMsg(Dispatch(msgs)),
                                  to_binary_AcknowledgementMsg(AckOk(<<>>))))
        \/ \E e \in AckErrors :
             Ack(storage, time, "dispatch_err",
                 IbcAcknowledgement(channel_id, to_binary_PacketMsg(Dispatch(msgs)),
                                    to_binary_AcknowledgementMsg(AckErr(e))))

AckWhoAmI ==
    \E time \in Times, channel_id \in ChannelIds :
        \/ \E account \in RemoteAddrs :
             Ack(storage, time, "who_am_i_ok",
                 IbcAcknowledgement(channel_id, to_binary_PacketMsg(WhoAmI),
                     to_binary_AcknowledgementMsg(AckOk(WhoAmIResponse(account)))))
        \/ \E e \in AckErrors :
             Ack(storage, time, "who_am_i_err",
                 IbcAcknowledgement(channel_id, to_binary_PacketMsg(WhoAmI),
                                    to_binary_AcknowledgementMsg(AckErr(e))))

AckBalances ==
    \E time \in Times, channel_id \in ChannelIds :
        \/ \E account \in RemoteAddrs, balances \in BalanceLists :
             Ack(storage, time, "balances_ok",
                 IbcAcknowledgement(channel_id, to_binary_PacketMsg(Balances),
                     to_binary_AcknowledgementMsg(
                         AckOk(BalancesResponse(account, balances)))))
        \/ \E e \in AckErrors :
             Ack(storage, time, "balances_err",
                 IbcAcknowledgement(channel_id, to_binary_PacketMsg(Balances),
                                    to_binary_AcknowledgementMsg(AckErr(e))))

AckUndecodable ==
    \E time \in Times, channel_id \in ChannelIds :
        \/ Ack(storage, time, "bad_packet",
               IbcAcknowledgement(channel_id, Garbage,
                                  to_binary_AcknowledgementMsg(AckOk(<<>>))))
        \/ Ack(storage, time, "bad_ack",
               IbcAcknowledgement(channel_id, to_binary_PacketMsg(WhoAmI), Garbage))

Next ==
    \/ UpdateAdmin
    \/ SendMsgs
    \/ CheckRemoteBalance
    \/ SendFunds
    \/ QueryAccount
    \/ QueryListAccounts
    \/ QueryAdmin
    \/ IbcChannelOpen
    \/ IbcChannelConnect
    \/ IbcChannelClose
    \/ IbcPacketReceive
    \/ AckDispatch
    \/ AckWhoAmI
    \/ AckBalances
    \/ AckUndecodable
    \/ IbcPacketTimeout

Spec == Init /\ [][Next]_vars

----------------------------------------------------------------------------
(* The hackatom contract (contracts/hackatom/src/contract.rs): a store     *)
(* with one key, CONFIG_KEY, under which init saves the encoded State and  *)
(* from which handle reads it.  In HackSpec `storage` is that store and    *)
(* `last` the last call; `lifecycle` is not used and stays as it starts.   *)

CONFIG_KEY == "config"

\* Addresses: the signers of the calls, and the verifier and beneficiary an
\* InitMsg names.
HackAddrs == {"creator", "verifies", "benefits"}

\* params.contract.address (mock_params)
ContractAddrs == {"cosmos2contract"}

\* params.contract.balance: Option<Vec<Coin>>
ContractBalances ==
    { None,
      Some(<<Coin(1015, "earth")>>),
      Some(<<Coin(1000, "earth"), Coin(7, "mars")>>) }

EmptyStore == [k \in {} |-> <<>>]

store_get(store, key) ==
    IF key \in DOMAIN store THEN Some(store[key]) ELSE None

store_set(store, key, value) ==
    [k \in (DOMAIN store) \cup {key} |-> IF k = key THEN value ELSE store[k]]

InitMsg(verifier, beneficiary) ==
    [verifier |-> verifier, beneficiary |-> beneficiary]

State(verifier, beneficiary, funder) ==
    [verifier |-> verifier, beneficiary |-> beneficiary, funder |-> funder]

\* to_vec / from_slice: an encoded value is <<type, fields>>; decoding into
\* another type fails.
to_vec_InitMsg(msg) == <<"InitMsg", msg>>

to_vec_State(state) == <<"State", state>>

from_slice_InitMsg(data) ==
    IF data[1] = "InitMsg"
    THEN [ok |-> TRUE, val |-> data[2]]
    ELSE [ok |-> FALSE, err |-> "ParseErr InitMsg"]

from_slice_State(data) ==
    IF data[1] = "State"
    THEN [ok |-> TRUE, val |-> data[2]]
    ELSE [ok |-> FALSE, err |-> "ParseErr State"]

\* b"{}", which is no InitMsg.
EmptyObject == <<"{}", <<>>>>

Params(signer, address, balance) ==
    [message |-> [signer |-> signer],
     contract |-> [address |-> address, balance |-> balance]]

\* Option::unwrap_or_default on the balance
unwrap_or_default(balance) == IF balance = None THEN <<>> ELSE balance[1]

Send(from_address, to_address, amount) ==
    [type |-> "send", from_address |-> from_address,
     to_address |-> to_address, amount |-> amount]

ErrUninitialized == "ContractErr uninitialized data"

ErrUnauthorized == "Unauthorized"

HackOk(store, messages, log) ==
    [result |-> "ok", storage |-> store,
     messages |-> messages, log |-> log, data |-> None]

HackErr(store, e) ==
    [result |-> e, storage |-> store,
     messages |-> <<>>, log |-> None, data |-> None]

hackatom_init(store, params, msg) ==
    LET parsed == from_slice_InitMsg(msg)
    IN  IF ~parsed.ok
        THEN HackErr(store, parsed.err)
        ELSE HackOk(store_set(store, CONFIG_KEY,
                        to_vec_State(State(parsed.val.verifier,
                                           parsed.val.beneficiary,
                                           params.message.signer))),
                    <<>>, None)

\* Mutant: the beneficiary, too, may release the funds.
Mut_handle_beneficiary_signs(store, params) ==
    LET data == store_get(store, CONFIG_KEY)
    IN  IF data = None
        THEN HackErr(store, ErrUninitialized)
        ELSE LET state == from_slice_State(data[1]).val
             IN  IF params.message.signer \in {state.verifier, state.beneficiary}
                 THEN HackOk(store,
                             <<Send(params.contract.address, state.beneficiary,
                                    unwrap_or_default(params.contract.balance))>>,
                             Some("released funds!"))
                 ELSE HackErr(store, ErrUnauthorized)

hackatom_handle(store, params) ==
    LET data == store_get(store, CONFIG_KEY)
    IN  IF data = None
        THEN HackErr(store, ErrUninitialized)
        ELSE LET state == from_slice_State(data[1])
             IN  IF ~state.ok
                 THEN HackErr(store, state.err)
                 ELSE IF params.message.signer = state.val.verifier
                 THEN HackOk(store,
                             <<Send(params.contract.address,
                                    state.val.beneficiary,
                                    unwrap_or_default(params.contract.balance))>>,
                             Some("released funds!"))
                 ELSE HackErr(store, ErrUnauthorized)

HackInit ==
    /\ storage = EmptyStore
    /\ last = [call |-> [op |-> "deploy"],
               response |-> Response(HackOk(EmptyStore, <<>>, None)),
               before |-> EmptyStore]
    /\ lifecycle = [c \in ChannelIds |-> "never"]
    /\ reported = [c \in ChannelIds |-> None]

HackatomInit ==
    \E signer \in HackAddrs, address \in ContractAddrs,
       balance \in ContractBalances,
       msg \in { to_vec_InitMsg(InitMsg(v, b)) : v, b \in HackAddrs }
                  \cup {EmptyObject} :
        Invoke([op |-> "init", params |-> Params(signer, address, balance),
                msg |-> msg],
               hackatom_init(storage, Params(signer, address, balance), msg),
               lifecycle)

HackatomHandle ==
    \E signer \in HackAddrs, address \in ContractAddrs,
       balance \in ContractBalances :
        Invoke([op |-> "handle", params |-> Params(signer, address, balance)],
               hackatom_handle(storage, Params(signer, address, balance)),
               lifecycle)

HackNext ==
    \/ HackatomInit
    \/ HackatomHandle

HackSpec == HackInit /\ [][HackNext]_vars

----------------------------------------------------------------------------
(* packages/std math: multiplication of an unsigned integer by a fraction. *)
(* A second specification, FracSpec, over the same variables: `storage`    *)
(* holds the operands, `last` the last call; the histories are not used.   *)

\* Width in bits of the modelled $Uint; its double-width type has twice that.
UintBits == 3

UintModulus == 2 ^ UintBits

WideModulus == 2 ^ (2 * UintBits)

Uints == 0..(UintModulus - 1)

ErrDivideByZero == "DivideByZero"

ErrConversionOverflow == "ConversionOverflow"

ErrOverflow == "Overflow"

MathOk(v) == [ok |-> TRUE, val |-> v]

MathErr(e) == [ok |-> FALSE, err |-> e]

numerator(f) == f[1]

denominator(f) == f[2]

\* $Uint::full_mul: the product in the double-width type.
full_mul(a, b) == (a * b) % WideModulus

\* checked_div and checked_rem of the double-width type.
checked_div(a, divisor) ==
    IF divisor = 0 THEN MathErr(ErrDivideByZero) ELSE MathOk(a \div divisor)

checked_rem(a, divisor) ==
    IF divisor = 0 THEN MathErr(ErrDivideByZero) ELSE MathOk(a % divisor)

\* TryFrom<double-width> for $Uint.
try_into(v) ==
    IF v >= UintModulus THEN MathErr(ErrConversionOverflow) ELSE MathOk(v)

\* $Uint::checked_add.
checked_add(a, b) ==
    IF a + b >= UintModulus THEN MathErr(ErrOverflow) ELSE MathOk(a + b)

\* Mutant: the product is taken in the $Uint's own width.
Mut_mul_floored_narrow(x, rhs) ==
    LET divisor == denominator(rhs)
        res == checked_div((x * numerator(rhs)) % UintModulus, divisor)
    IN  IF ~res.ok THEN res ELSE try_into(res.val)

checked_mul_floored(x, rhs) ==
    LET divisor == denominator(rhs)
        res == checked_div(full_mul(x, numerator(rhs)), divisor)
    IN  IF ~res.ok THEN res ELSE try_into(res.val)

\* Mutant: one is added whenever the floor is not zero.
Mut_mul_ceil_adds(x, rhs) ==
    LET divisor == denominator(rhs)
        remainder == checked_rem(full_mul(x, numerator(rhs)), divisor)
        floor_result == checked_mul_floored(x, rhs)
    IN  IF ~remainder.ok THEN remainder
        ELSE IF ~floor_result.ok THEN floor_result
        ELSE IF floor_result.val # 0
        THEN checked_add(1, floor_result.val)
        ELSE floor_result

checked_mul_ceil(x, rhs) ==
    LET divisor == denominator(rhs)
        remainder == checked_rem(full_mul(x, numerator(rhs)), divisor)
        floor_result == checked_mul_floored(x, rhs)
    IN  IF ~remainder.ok THEN remainder
        ELSE IF ~floor_result.ok THEN floor_result
        ELSE IF remainder.val # 0
        THEN checked_add(1, floor_result.val)
        ELSE floor_result

\* The operands x and p/q, any three values of the integer type.
FracInit ==
    \E x \in Uints, p \in Uints, q \in Uints :
        /\ storage = [x |-> x, p |-> p, q |-> q]
        /\ last = [call |-> [op |-> "operands"],
                   response |-> MathOk(x),
                   before |-> [x |-> x, p |-> p, q |-> q]]
        /\ lifecycle = [c \in ChannelIds |-> "never"]
        /\ reported = [c \in ChannelIds |-> None]

FracCall(op, operands, response) ==
    /\ last' = [call |-> [op |-> op], response |-> response,
                before |-> operands]
    /\ UNCHANGED <<storage, lifecycle, reported>>

CheckedMulFloored ==
    FracCall("checked_mul_floored", storage,
             checked_mul_floored(storage.x, <<storage.p, storage.q>>))

CheckedMulCeil ==
    FracCall("checked_mul_ceil", storage,
             checked_mul_ceil(storage.x, <<storage.p, storage.q>>))

FracNext ==
    \/ CheckedMulFloored
    \/ CheckedMulCeil

FracSpec == FracInit /\ [][FracNext]_vars

----------------------------------------------------------------------------
(* Properties.  Each is stated on the state right after an invocation:     *)
(* `last` holds the call, its response and the storage it started from,    *)
(* `storage` is the storage it left.                                       *)

Op == last.call.op

Result == last.response.result

Pre == last.before.accounts

Post == storage.accounts

IsAck(kind) == Op = "ibc_packet_ack" /\ last.call.kind = kind

AckChannel == last.call.ack.original_packet.src.channel_id

\* The success payload of the acknowledgement just processed.
AckRes == last.call.ack.acknowledgement[2]

Registered(accounts, channel_id) == channel_id \in DOMAIN accounts

\* C1: in every reachable state the Account Registry holds a record for a
\* channel id if and only if the most recent connect/close event for that id
\* was ibc_channel_connect; it holds none for an id that was never connected
\* or whose last such event was ibc_channel_close.
C1_RecordIffConnected ==
    \A c \in ChannelIds :
        Registered(storage.accounts, c) <=> lifecycle[c] = "connected"

\* C1 witness: a channel has just been closed after acknowledgements filled
\* its record, while another channel is still connected.
C1_Witness ==
    /\ Op = "ibc_channel_close"
    /\ Registered(Pre, last.call.channel_id)
    /\ Pre[last.call.channel_id].remote_addr # None
    /\ \E d \in ChannelIds : lifecycle[d] = "connected"
    /\ \E d \in ChannelIds : lifecycle[d] = "closed"

\* C2: first-write-wins.  A successful WhoAmI acknowledgement on a channel
\* whose record already has remote_addr set succeeds and leaves remote_addr
\* and the whole record (indeed the whole storage) unchanged; one on a
\* record whose remote_addr is unset sets it to the reported account.  So
\* connect, ack(A), ack(B) ends with remote_addr = A for any A and B.
C2_FirstWriteWins ==
    (IsAck("who_am_i_ok") /\ Registered(Pre, AckChannel)) =>
        /\ Result = "ok"
        /\ Registered(Post, AckChannel)
        /\ IF Pre[AckChannel].remote_addr # None
           THEN storage = last.before
           ELSE Post[AckChannel].remote_addr = Some(AckRes.account)

\* C2 witness: a WhoAmI acknowledgement reporting B has been processed on a
\* channel whose remote_addr was already A, A # B, and it is still A.
C2_Witness ==
    /\ IsAck("who_am_i_ok")
    /\ Registered(Pre, AckChannel)
    /\ Pre[AckChannel].remote_addr # None
    /\ Pre[AckChannel].remote_addr # Some(AckRes.account)
    /\ Post[AckChannel].remote_addr = Pre[AckChannel].remote_addr

\* C3: a successful Balances acknowledgement that reports an address other
\* than the record's already-set remote_addr makes ibc_packet_ack fail with
\* the remote-account-changed error and leaves the record's remote_addr,
\* remote_balance and last_update_time exactly as they were.
C3_BalancesAddressChanged ==
    (/\ IsAck("balances_ok")
     /\ Registered(Pre, AckChannel)
     /\ Pre[AckChannel].remote_addr # None
     /\ Pre[AckChannel].remote_addr # Some(AckRes.account)) =>
        /\ Result = ErrRemoteChanged
        /\ Registered(Post, AckChannel)
        /\ Post[AckChannel] = Pre[AckChannel]

\* C3 witness: such an acknowledgement was rejected on a record that already
\* held balances of an earlier acknowledgement, while reporting other ones.
C3_Witness ==
    /\ IsAck("balances_ok")
    /\ Registered(Pre, AckChannel)
    /\ Pre[AckChannel].remote_addr # None
    /\ Pre[AckChannel].remote_addr # Some(AckRes.account)
    /\ Pre[AckChannel].last_update_time # 0
    /\ Pre[AckChannel].remote_balance # AckRes.balances
    /\ Result = ErrRemoteChanged

\* C4: a successful Balances acknowledgement on a registered channel whose
\* remote_addr is unset or equal to the reported address succeeds and
\* replaces the record by {remote_addr = reported account, remote_balance =
\* reported balances, last_update_time = block time of the invocation}; it
\* sets remote_addr also on a record no WhoAmI acknowledgement has touched.
C4_BalancesOverwrite ==
    (/\ IsAck("balances_ok")
     /\ Registered(Pre, AckChannel)
     /\ Pre[AckChannel].remote_addr \in {None, Some(AckRes.account)}) =>
        /\ Result = "ok"
        /\ Registered(Post, AckChannel)
        /\ Post[AckChannel] =
              AccountData(Some(AckRes.account), AckRes.balances, last.call.time)

\* C4 witness: the acknowledgement arrived on the fresh record of a connect
\* (remote_addr unset: no WhoAmI acknowledgement was applied) and set the
\* address, non-empty balances and the time.
C4_Witness ==
    /\ IsAck("balances_ok")
    /\ Registered(Pre, AckChannel)
    /\ Pre[AckChannel] = AccountData_default
    /\ AckRes.balances # <<>>
    /\ Result = "ok"
    /\ Post[AckChannel].remote_addr = Some(AckRes.account)
    /\ Post[AckChannel].last_update_time = last.call.time

\* A record of channel c whose remote_addr was set before the invocation is
\* still there after it, with another remote_addr.
AddrChanged(c) ==
    /\ Registered(Pre, c)
    /\ Pre[c].remote_addr # None
    /\ Registered(Post, c)
    /\ Post[c].remote_addr # Pre[c].remote_addr

\* C5 as stated: once remote_addr of a channel's account is set, it changes
\* only through a verified-consistent (accepted) Balances acknowledgement on
\* that channel; no other operation changes a set remote_addr.
C5_Original ==
    \A c \in ChannelIds :
        AddrChanged(c) =>
            IsAck("balances_ok") /\ AckChannel = c /\ Result = "ok"

\* C5 amended: once remote_addr of a channel's account is set, it changes
\* only through ibc_channel_connect on that channel, which resets it to
\* unset, and the record goes away only through ibc_channel_close on that
\* channel; an accepted Balances acknowledgement writes the address it
\* already holds, a WhoAmI acknowledgement sets it only when it is unset,
\* and an unset remote_addr is set only by a successful WhoAmI or Balances
\* acknowledgement on that channel, to the address reported.
C5_SetAddrChangesOnlyByConnect ==
    \A c \in ChannelIds :
        /\ AddrChanged(c) =>
              /\ Op = "ibc_channel_connect"
              /\ last.call.channel_id = c
              /\ Post[c].remote_addr = None
        /\ (Registered(Pre, c) /\ ~Registered(Post, c)) =>
              (Op = "ibc_channel_close" /\ last.call.channel_id = c)
        /\ (/\ Registered(Pre, c)
            /\ Pre[c].remote_addr = None
            /\ Registered(Post, c)
            /\ Post[c].remote_addr # None) =>
              /\ IsAck("who_am_i_ok") \/ IsAck("balances_ok")
              /\ AckChannel = c
              /\ Post[c].remote_addr = Some(AckRes.account)

\* C5 witness: ibc_channel_connect ran on a channel whose record had a
\* remote_addr, and the record's remote_addr is unset again.
C5_Witness ==
    /\ Op = "ibc_channel_connect"
    /\ AddrChanged(last.call.channel_id)
    /\ Post[last.call.channel_id].remote_addr = None

\* C6: ibc_channel_connect on a channel id always succeeds; afterwards the
\* account query for that id returns the fresh record {remote_addr: None,
\* remote_balance: [], last_update_time: 0} whatever was stored before, and
\* the response holds exactly one outgoing packet, a WhoAmI sent on that id.
C6_ConnectResets ==
    Op = "ibc_channel_connect" =>
        LET c == last.call.channel_id
            messages == last.response.messages
        IN  /\ Result = "ok"
            /\ query_account(storage, c) =
                  [ok |-> TRUE, val |-> AccountData(None, <<>>, 0)]
            /\ Len(messages) = 1
            /\ messages[1].type = "send_packet"
            /\ messages[1].channel_id = c
            /\ from_slice_PacketMsg(messages[1].data) =
                  [ok |-> TRUE, val |-> WhoAmI]

\* C6 witness: the connect replaced a record that held a learned remote
\* address and balances.
C6_Witness ==
    /\ Op = "ibc_channel_connect"
    /\ Registered(Pre, last.call.channel_id)
    /\ Pre[last.call.channel_id].remote_addr # None
    /\ Pre[last.call.channel_id].remote_balance # <<>>
    /\ Post[last.call.channel_id] = AccountData_default

\* C7: ibc_channel_close on a channel id always succeeds, whether or not a
\* record exists, removes the record, emits no packet; and every account
\* query for that id fails NotFound until the channel is connected again.
C7_CloseRemoves ==
    /\ Op = "ibc_channel_close" =>
          /\ Result = "ok"
          /\ ~Registered(Post, last.call.channel_id)
          /\ last.response.messages = <<>>
          /\ query_account(storage, last.call.channel_id) =
                [ok |-> FALSE, err |-> ErrNotFound]
    /\ (Op = "query_account" /\ lifecycle[last.call.channel_id] = "closed") =>
          last.response = [ok |-> FALSE, err |-> ErrNotFound]
    /\ \A c \in ChannelIds :
          lifecycle[c] = "closed" =>
              query_account(storage, c) = [ok |-> FALSE, err |-> ErrNotFound]

\* C7 witness: an account query on a closed channel, whose record was
\* removed by the close, has just failed.
C7_Witness ==
    /\ Op = "query_account"
    /\ lifecycle[last.call.channel_id] = "closed"
    /\ ~last.response.ok

\* C7 second case: the close of a channel that had no record succeeded.
C7_CloseWithoutRecord ==
    /\ Op = "ibc_channel_close"
    /\ ~Registered(Pre, last.call.channel_id)
    /\ Result = "ok"

\* C8: ibc_channel_open succeeds if and only if the order is Ordered, the
\* version is "ibc-reflect" and the counterparty version is absent or
\* "ibc-reflect"; it fails otherwise, and it never modifies the storage.
C8_OpenValidates ==
    Op = "ibc_channel_open" =>
        LET channel == last.call.channel
        IN  /\ Result = "ok" <=>
                  /\ channel.order = "ORDER_ORDERED"
                  /\ channel.version = "ibc-reflect"
                  /\ channel.counterparty_version \in {None, Some("ibc-reflect")}
            /\ storage = last.before

\* C8 witness: an ordered channel with the right version and a mismatched
\* counterparty version has been refused.
C8_Witness ==
    /\ Op = "ibc_channel_open"
    /\ last.call.channel.order = "ORDER_ORDERED"
    /\ last.call.channel.version = "ibc-reflect"
    /\ last.call.channel.counterparty_version = Some("reflect")
    /\ Result # "ok"

\* C9: send_msgs and check_remote_balance fail with the only-admin error
\* whenever the caller is not the current admin, registered channel or not;
\* fail NotFound when the caller is the admin and the channel id has no
\* record; otherwise succeed with exactly one packet on that channel id,
\* Dispatch{msgs} respectively Balances{}.
C9_SendAuthThenLookup ==
    Op \in {"send_msgs", "check_remote_balance"} =>
        LET c == last.call.channel_id
            messages == last.response.messages
        IN  IF last.call.sender # last.before.config.admin
            THEN Result = ErrOnlyAdminSend /\ messages = <<>>
            ELSE IF ~Registered(Pre, c)
            THEN Result = ErrNotFound /\ messages = <<>>
            ELSE /\ Result = "ok"
                 /\ Len(messages) = 1
                 /\ messages[1].type = "send_packet"
                 /\ messages[1].channel_id = c
                 /\ from_slice_PacketMsg(messages[1].data) =
                       [ok |-> TRUE,
                        val |-> IF Op = "send_msgs"
                                THEN Dispatch(last.call.msgs)
                                ELSE Balances]

\* C9 witness: a caller who is not the admin was refused as unauthorized on
\* a channel id that has no record.
C9_Witness ==
    /\ Op = "send_msgs"
    /\ last.call.sender # last.before.config.admin
    /\ ~Registered(Pre, last.call.channel_id)
    /\ Result = ErrOnlyAdminSend

\* C10: send_funds, for any caller, fails with the no-funds error if the
\* attached funds are empty, with the one-coin error if they hold more than
\* one coin, NotFound if reflect_channel_id has no record, with the
\* unknown-remote-address error if the record has no remote_addr; otherwise
\* it succeeds with exactly one token-transfer message on
\* transfer_channel_id, to the record's remote_addr, carrying the coin.
C10_SendFunds ==
    Op = "send_funds" =>
        LET funds == last.call.sent_funds
            r == last.call.reflect_channel_id
            messages == last.response.messages
        IN  IF Len(funds) = 0
            THEN Result = ErrNoFunds
            ELSE IF Len(funds) > 1
            THEN Result = ErrOneCoin
            ELSE IF ~Registered(Pre, r)
            THEN Result = ErrNotFound
            ELSE IF Pre[r].remote_addr = None
            THEN Result = ErrNoRemoteAddr
            ELSE /\ Result = "ok"
                 /\ Len(messages) = 1
                 /\ messages[1].type = "transfer"
                 /\ messages[1].channel_id = last.call.transfer_channel_id
                 /\ Some(messages[1].to_address) = Pre[r].remote_addr
                 /\ messages[1].amount = funds[1]

\* C10 witness: a caller who is not the admin has sent one coin to the known
\* remote address over a transfer channel other than the reflect channel.
C10_Witness ==
    /\ Op = "send_funds"
    /\ last.call.sender # last.before.config.admin
    /\ last.call.transfer_channel_id # last.call.reflect_channel_id
    /\ Result = "ok"
    /\ Len(last.response.messages) = 1

\* The errors by which a caller who is not the admin is refused.
Unauthorized == {ErrOnlyAdminSet, ErrOnlyAdminSend}

\* C11: update_admin fails as unauthorized and leaves the storage unchanged
\* unless the caller is the current Config.admin; for the admin it succeeds
\* and Config.admin becomes new_admin; Config changes in no other way, and
\* update_admin, send_msgs and check_remote_balance are refused as
\* unauthorized exactly when the caller is not the admin stored when they
\* run, so a replaced admin is rejected from then on.
C11_UpdateAdmin ==
    /\ Op = "update_admin" =>
          IF last.call.sender # last.before.config.admin
          THEN Result = ErrOnlyAdminSet /\ storage = last.before
          ELSE /\ Result = "ok"
               /\ storage.config = Config(last.call.admin)
               /\ storage.accounts = last.before.accounts
    /\ (Op # "init" /\ storage.config # last.before.config) =>
          (Op = "update_admin" /\ Result = "ok")
    /\ Op \in {"update_admin", "send_msgs", "check_remote_balance"} =>
          (Result \in Unauthorized <=>
               last.call.sender # last.before.config.admin)

\* C11 witness: the admin has handed the role to another address, which is
\* now the stored admin.
C11_Witness ==
    /\ Op = "update_admin"
    /\ Result = "ok"
    /\ last.call.admin # last.call.sender
    /\ storage.config.admin = last.call.admin
    /\ last.before.config.admin = last.call.sender

\* The channel id whose account a command needs: channel_id of send_msgs and
\* check_remote_balance, reflect_channel_id of send_funds.
CommandChannel ==
    IF Op = "send_funds"
    THEN last.call.reflect_channel_id
    ELSE last.call.channel_id

OnNeverConnected ==
    /\ Op \in {"send_msgs", "check_remote_balance", "send_funds"}
    /\ lifecycle[CommandChannel] = "never"

\* C12 as stated: on a channel id that was never connected, send_msgs,
\* check_remote_balance and send_funds fail NotFound, for every caller and
\* every attached-funds value.
C12_Original == OnNeverConnected => Result = ErrNotFound

\* C12 amended: on a channel id that was never connected the three commands
\* always fail, write nothing and emit nothing; the error is NotFound when
\* the checks that precede the lookup pass (the caller is the admin, for
\* send_msgs and check_remote_balance; exactly one coin is attached, for
\* send_funds), and otherwise the error of the first check that fails.
C12_NeverConnectedFails ==
    OnNeverConnected =>
        /\ storage = last.before
        /\ last.response.messages = <<>>
        /\ Result =
             IF Op = "send_funds"
             THEN IF Len(last.call.sent_funds) = 0 THEN ErrNoFunds
                  ELSE IF Len(last.call.sent_funds) > 1 THEN ErrOneCoin
                  ELSE ErrNotFound
             ELSE IF last.call.sender # last.before.config.admin
                  THEN ErrOnlyAdminSend
                  ELSE ErrNotFound

\* C12 witness: the admin asked for the balance of a channel id that was
\* never connected, while another channel was, and got NotFound.
C12_Witness ==
    /\ Op = "check_remote_balance"
    /\ lifecycle[last.call.channel_id] = "never"
    /\ last.call.sender = last.before.config.admin
    /\ Result = ErrNotFound
    /\ \E c \in ChannelIds : lifecycle[c] = "connected"

\* C13: a successful WhoAmI acknowledgement on a registered channel whose
\* remote_addr is unset succeeds, sets remote_addr to the reported account,
\* leaves remote_balance and last_update_time as they were and emits no
\* packet; on the fresh record of a connect, the account query then returns
\* {remote_addr: the account, remote_balance: [], last_update_time: 0}.
C13_WhoAmISetsAddress ==
    (/\ IsAck("who_am_i_ok")
     /\ Registered(Pre, AckChannel)
     /\ Pre[AckChannel].remote_addr = None) =>
        /\ Result = "ok"
        /\ last.response.messages = <<>>
        /\ Registered(Post, AckChannel)
        /\ Post[AckChannel].remote_addr = Some(AckRes.account)
        /\ Post[AckChannel].remote_balance = Pre[AckChannel].remote_balance
        /\ Post[AckChannel].last_update_time = Pre[AckChannel].last_update_time
        /\ Pre[AckChannel] = AccountData(None, <<>>, 0) =>
              query_account(storage, AckChannel) =
                  [ok |-> TRUE,
                   val |-> AccountData(Some(AckRes.account), <<>>, 0)]

\* C13 witness: the scenario's last step: the admin is "creator", and the
\* acknowledgement reporting "account-789" was applied to a fresh record.
C13_Witness ==
    /\ IsAck("who_am_i_ok")
    /\ storage.config.admin = "creator"
    /\ Registered(Pre, AckChannel)
    /\ Pre[AckChannel] = AccountData_default
    /\ AckRes.account = "account-789"
    /\ Registered(Post, AckChannel)
    /\ Post[AckChannel] = AccountData(Some("account-789"), <<>>, 0)

\* C14: a successful WhoAmI or Balances acknowledgement whose source channel
\* has no record makes ibc_packet_ack fail with the no-account error, and
\* creates no record: the storage is as it was.
C14_AckWithoutRecordFails ==
    (/\ IsAck("who_am_i_ok") \/ IsAck("balances_ok")
     /\ ~Registered(Pre, AckChannel)) =>
        /\ Result = ErrNoAccount
        /\ ~Registered(Post, AckChannel)
        /\ storage = last.before
        /\ last.response.messages = <<>>

\* C14 witness: a Balances acknowledgement arrived for a channel id that was
\* never connected, while another channel holds a record, and was refused.
C14_Witness ==
    /\ IsAck("balances_ok")
    /\ lifecycle[AckChannel] = "never"
    /\ ~Registered(Pre, AckChannel)
    /\ Pre # EmptyBucket
    /\ Result = ErrNoAccount

\* C15: a WhoAmI or Balances acknowledgement that carries a failure value
\* does not abort: ibc_packet_ack succeeds, emits no packet and leaves Config
\* and every record unchanged, whether or not the channel has a record.
C15_FailureAckIsData ==
    (IsAck("who_am_i_err") \/ IsAck("balances_err")) =>
        /\ Result = "ok"
        /\ last.response.messages = <<>>
        /\ storage = last.before

\* C15 witness: a failed balance query was acknowledged on a channel whose
\* record holds an address and balances; the record is as it was.
C15_Witness ==
    /\ IsAck("balances_err")
    /\ Result = "ok"
    /\ Registered(Post, AckChannel)
    /\ Post[AckChannel].remote_addr # None
    /\ Post[AckChannel].remote_balance # <<>>
    /\ last.call.ack.acknowledgement[2] \in AckErrors

AckOnClosed == Op = "ibc_packet_ack" /\ lifecycle[AckChannel] = "closed"

\* C16 as stated: after ibc_channel_close and before a reconnect, every
\* acknowledgement whose original packet was sent from that channel id makes
\* the invocation fail, whatever the packet kind and whether the payload is
\* a success or a failure value.  (Any error counts as failing here.)
C16_Original == AckOnClosed => Result # "ok"

\* C16 amended: after ibc_channel_close and before a reconnect, an
\* acknowledgement from that channel id fails with the no-account error only
\* if it is a successful WhoAmI or Balances acknowledgement; a Dispatch
\* acknowledgement, and a WhoAmI or Balances acknowledgement carrying a
\* failure value, still succeed; an undecodable one fails with the parse
\* error.  In every case nothing is written and no packet is emitted.
C16_AcksAfterClose ==
    AckOnClosed =>
        /\ storage = last.before
        /\ last.response.messages = <<>>
        /\ ~Registered(Post, AckChannel)
        /\ Result =
             IF last.call.kind \in {"who_am_i_ok", "balances_ok"}
             THEN ErrNoAccount
             ELSE IF last.call.kind \in {"bad_packet", "bad_ack"}
             THEN ErrParse
             ELSE "ok"

\* C16 witness: a WhoAmI acknowledgement carrying a failure value arrived for
\* a closed channel, and the invocation succeeded.
C16_Witness ==
    /\ AckOnClosed
    /\ IsAck("who_am_i_err")
    /\ ~Registered(Pre, AckChannel)
    /\ Result = "ok"

\* C16 second case: a successful WhoAmI acknowledgement for a closed channel
\* was refused.
C16_SuccessAckRefused ==
    /\ AckOnClosed
    /\ IsAck("who_am_i_ok")
    /\ Result = ErrNoAccount

\* C17: a Dispatch acknowledgement applies no state transition whether its
\* payload is a success or a failure value: ibc_packet_ack succeeds, emits
\* no packet, and leaves Config and the whole accounts bucket unchanged.
C17_DispatchAckNoOp ==
    (IsAck("dispatch_ok") \/ IsAck("dispatch_err")) =>
        /\ Result = "ok"
        /\ last.response.messages = <<>>
        /\ last.response.attributes = <<attr("action", "acknowledge_dispatch")>>
        /\ storage = last.before

\* C17 witness: a Dispatch acknowledgement carrying a failure value was
\* applied on a channel whose record holds an address.
C17_Witness ==
    /\ IsAck("dispatch_err")
    /\ from_slice_AcknowledgementMsg(last.call.ack.acknowledgement).val.tag = "Err"
    /\ Registered(Pre, AckChannel)
    /\ Pre[AckChannel].remote_addr # None
    /\ Result = "ok"

\* C18: ibc_packet_receive, for any inbound packet and in any state, succeeds
\* with the acknowledgement "{}", produces no outgoing message, and changes
\* neither Config nor the accounts bucket.
C18_ReceiveTrivial ==
    Op = "ibc_packet_receive" =>
        /\ Result = "ok"
        /\ last.response.acknowledgement = "{}"
        /\ last.response.messages = <<>>
        /\ storage = last.before

\* C18 witness: a packet whose payload decodes to no PacketMsg came in on a
\* channel without a record, while another channel holds one.
C18_Witness ==
    /\ Op = "ibc_packet_receive"
    /\ ~from_slice_PacketMsg(last.call.packet.data).ok
    /\ ~Registered(Post, last.call.packet.src.channel_id)
    /\ Post # EmptyBucket
    /\ last.response.acknowledgement = "{}"

\* C19: ibc_packet_timeout, for any packet and in any state, channels without
\* a record included, succeeds, emits no packet (nothing is retried), and
\* changes neither Config nor the accounts bucket.
C19_TimeoutNoOp ==
    Op = "ibc_packet_timeout" =>
        /\ Result = "ok"
        /\ last.response.messages = <<>>
        /\ storage = last.before

\* C19 witness: a WhoAmI packet of a channel that has no record any more
\* timed out.
C19_Witness ==
    /\ Op = "ibc_packet_timeout"
    /\ from_slice_PacketMsg(last.call.packet.data) = [ok |-> TRUE, val |-> WhoAmI]
    /\ lifecycle[last.call.packet.src.channel_id] = "closed"
    /\ ~Registered(Post, last.call.packet.src.channel_id)
    /\ Result = "ok"

\* The entry points that can return an error.
FallibleOps ==
    {"update_admin", "send_msgs", "check_remote_balance", "send_funds",
     "ibc_channel_open", "ibc_packet_ack"}

\* C20: validate-then-write: an invocation of update_admin, send_msgs,
\* check_remote_balance, send_funds, ibc_channel_open or ibc_packet_ack
\* (undecodable packets and payloads included) that returns an error has
\* written nothing by the time it returns: Config and the accounts bucket
\* are what they were before it, and no message is emitted.
C20_ValidateThenWrite ==
    (Op \in FallibleOps /\ Result # "ok") =>
        /\ storage = last.before
        /\ last.response.messages = <<>>

\* C20 witness: an acknowledgement whose payload cannot be decoded was
\* refused on a channel whose record holds an address and balances.
C20_Witness ==
    /\ IsAck("bad_ack")
    /\ Result = ErrParse
    /\ Registered(Pre, AckChannel)
    /\ Pre[AckChannel].remote_balance # <<>>
    /\ storage = last.before

\* C20 second case: a Balances acknowledgement reporting another address
\* than the stored one failed after the record had been loaded.
C20_RefusedAfterLoad ==
    /\ IsAck("balances_ok")
    /\ Result = ErrRemoteChanged
    /\ AckRes.balances # Pre[AckChannel].remote_balance

QueryOps == {"query_account", "query_list_accounts", "query_admin"}

\* C21: every outgoing message of every operation (the WhoAmI packet of
\* connect, Dispatch of send_msgs, Balances of check_remote_balance, the
\* transfer of send_funds) carries the timestamp timeout block time + 3600
\* and no block-height timeout; the four operations emit one when they
\* succeed.
C21_PacketTimeout ==
    Op \notin QueryOps =>
        /\ \A i \in 1..Len(last.response.messages) :
              /\ last.response.messages[i].timeout_block = None
              /\ last.response.messages[i].timeout_timestamp =
                    Some(last.call.time + 3600)
        /\ (/\ Op \in {"ibc_channel_connect", "send_msgs",
                       "check_remote_balance", "send_funds"}
            /\ Result = "ok") => Len(last.response.messages) = 1

\* C21 witness: a connect has emitted its WhoAmI packet, which expires 3600
\* seconds after the block time of the call.
C21_Witness ==
    /\ Op = "ibc_channel_connect"
    /\ Len(last.response.messages) = 1
    /\ last.response.messages[1].timeout_timestamp =
          Some(last.call.time + PACKET_LIFETIME)
    /\ last.response.messages[1].timeout_block = None

\* C21 second case: a token transfer carries the same timeout.
C21_TransferTimeout ==
    /\ Op = "send_funds"
    /\ Len(last.response.messages) = 1
    /\ last.response.messages[1].type = "transfer"
    /\ last.response.messages[1].timeout_timestamp = Some(last.call.time + 3600)

\* C22: list_accounts returns exactly one entry per record of the accounts
\* bucket (none missing, none twice, none for a channel without a record),
\* each with the record's channel id and data, in ascending order of channel
\* id; account(channel_id) returns the record's data if there is one and
\* fails NotFound otherwise; neither query changes the storage.
C22_QueriesReadRegistry ==
    /\ Op = "query_list_accounts" =>
          LET accounts == last.response.accounts
          IN  /\ Len(accounts) = Cardinality(DOMAIN Post)
              /\ \A c \in DOMAIN Post :
                    \E i \in 1..Len(accounts) :
                        accounts[i] =
                            [channel_id |-> c,
                             remote_addr |-> Post[c].remote_addr,
                             remote_balance |-> Post[c].remote_balance,
                             last_update_time |-> Post[c].last_update_time]
              /\ \A i, j \in 1..Len(accounts) :
                    i < j => BytesLess(accounts[i].channel_id,
                                       accounts[j].channel_id)
              /\ \A i \in 1..Len(accounts) :
                    lifecycle[accounts[i].channel_id] = "connected"
              /\ storage = last.before
    /\ Op = "query_account" =>
          /\ last.response =
                IF Registered(Post, last.call.channel_id)
                THEN [ok |-> TRUE, val |-> Post[last.call.channel_id]]
                ELSE [ok |-> FALSE, err |-> ErrNotFound]
          /\ storage = last.before

\* C22 witness: list_accounts has listed the accounts of two channels in the
\* order of their ids, the first without a remote address, the second with
\* one.
C22_Witness ==
    /\ Op = "query_list_accounts"
    /\ Len(last.response.accounts) = 2
    /\ last.response.accounts[1].remote_addr = None
    /\ last.response.accounts[2].remote_addr # None
    /\ last.response.accounts[1].channel_id = Digits(1)
    /\ last.response.accounts[2].channel_id = Digits(2)

\* C22 second case: list_accounts has left out a closed channel.
C22_ClosedNotListed ==
    /\ Op = "query_list_accounts"
    /\ Len(last.response.accounts) = 1
    /\ \E c \in ChannelIds : lifecycle[c] = "closed"

\* The entry points that never write the accounts bucket.
RegistryReaders ==
    {"update_admin", "send_msgs", "check_remote_balance", "send_funds",
     "ibc_channel_open", "ibc_packet_receive", "ibc_packet_timeout"}
        \cup QueryOps

\* C23: a record is created only by ibc_channel_connect on its channel,
\* modified only by a successfully applied WhoAmI or Balances
\* acknowledgement on its channel (or reset by a connect), and deleted only
\* by ibc_channel_close on its channel; update_admin, send_msgs,
\* check_remote_balance, send_funds, ibc_channel_open, ibc_packet_receive,
\* ibc_packet_timeout and the queries leave the accounts bucket unchanged,
\* whether they succeed or fail.
C23_RegistryFrame ==
    /\ \A c \in ChannelIds :
          /\ (~Registered(Pre, c) /\ Registered(Post, c)) =>
                (Op = "ibc_channel_connect" /\ last.call.channel_id = c)
          /\ (Registered(Pre, c) /\ ~Registered(Post, c)) =>
                (Op = "ibc_channel_close" /\ last.call.channel_id = c)
          /\ (Registered(Pre, c) /\ Registered(Post, c) /\ Post[c] # Pre[c]) =>
                \/ Op = "ibc_channel_connect" /\ last.call.channel_id = c
                \/ /\ IsAck("who_am_i_ok") \/ IsAck("balances_ok")
                   /\ AckChannel = c
                   /\ Result = "ok"
    /\ Op \in RegistryReaders => Post = Pre

\* C23 witness: the admin has sent messages over a channel whose record
\* holds balances, and the accounts bucket is what it was.
C23_Witness ==
    /\ Op = "send_msgs"
    /\ Result = "ok"
    /\ Pre[last.call.channel_id].remote_balance # <<>>
    /\ Post = Pre

\* C24: Config.admin is the sender of init until a successful update_admin,
\* and from then on the new_admin of the most recent successful
\* update_admin: init stores its sender, a successful update_admin stores
\* its new_admin, and no other invocation (a refused update_admin, the
\* commands, the handshake hooks, acknowledgement, receive, timeout, the
\* queries) changes Config; the admin query returns the stored admin.
C24_ConfigAdmin ==
    /\ Op = "init" => storage.config = Config(last.call.sender)
    /\ (Op = "update_admin" /\ Result = "ok") =>
          storage.config = Config(last.call.admin)
    /\ (Op # "init" /\ ~(Op = "update_admin" /\ Result = "ok")) =>
          storage.config = last.before.config
    /\ Op = "query_admin" =>
          last.response = [admin |-> storage.config.admin]

\* C24 witness: the admin query has returned the stored admin in a state
\* where channels have been connected and closed and addresses learned.
C24_Witness ==
    /\ Op = "query_admin"
    /\ last.response.admin = "somebody"
    /\ \E c \in ChannelIds : lifecycle[c] = "closed"
    /\ \E c \in ChannelIds : Registered(Post, c) /\ Post[c].remote_addr # None

\* C24 second case: right after init the admin is the sender of init.
C24_AfterInit ==
    /\ Op = "init"
    /\ last.call.sender = "somebody"
    /\ query_admin(storage) = [admin |-> "somebody"]

\* The State stored when the last call started; None before init.
StoredBefore == store_get(last.before, CONFIG_KEY)

C25_BeneficiaryRefused ==
    /\ Op = "handle"
    /\ StoredBefore = Some(to_vec_State(State("verifies", "benefits", "creator")))
    /\ last.call.params.message.signer = "benefits"
    /\ Result = ErrUnauthorized

\* C25 third case: handle ran before init.
C25_BeforeInit ==
    /\ Op = "handle"
    /\ StoredBefore = None
    /\ Result = ErrUninitialized

\* C26: every stored record whose remote_addr is unset has an empty
\* remote_balance and last_update_time = 0: balances and time are only ever
\* written together with the address, and connect writes the default record.
C26_UnsetAddrIsDefault ==
    \A c \in DOMAIN storage.accounts :
        storage.accounts[c].remote_addr = None =>
            /\ storage.accounts[c].remote_balance = <<>>
            /\ storage.accounts[c].last_update_time = 0

\* C26 witness: a Balances acknowledgement has just filled the record of
\* one channel with non-empty balances and the block time, while the record
\* of another connected channel still has its remote_addr unset.
C26_Witness ==
    /\ IsAck("balances_ok")
    /\ Result = "ok"
    /\ Pre[AckChannel].remote_addr = None
    /\ Post[AckChannel].remote_balance # <<>>
    /\ Post[AckChannel].last_update_time # 0
    /\ \E d \in DOMAIN Post : d # AckChannel /\ Post[d].remote_addr = None

\* C27: a successful send_funds on reflect channel c happens only while c
\* is connected and after ibc_packet_ack processed, with an Ok result and
\* since the most recent connect of c, a WhoAmI or Balances success
\* acknowledgement on c; the transfer it emits goes to the account reported
\* by the first such acknowledgement.
C27_SendFundsAfterAck ==
    (Op = "send_funds" /\ Result = "ok") =>
        /\ lifecycle[last.call.reflect_channel_id] = "connected"
        /\ reported[last.call.reflect_channel_id] # None
        /\ Len(last.response.messages) = 1
        /\ last.response.messages[1].type = "transfer"
        /\ last.response.messages[1].to_address =
              reported[last.call.reflect_channel_id][1]

\* C27 witness: a transfer was emitted to the account first reported on its
\* reflect channel while another channel's first reported account is a
\* different one.
C27_Witness ==
    /\ Op = "send_funds"
    /\ Result = "ok"
    /\ reported[last.call.reflect_channel_id] # None
    /\ \E d \in ChannelIds :
          /\ reported[d] # None
          /\ reported[d] # reported[last.call.reflect_channel_id]

\* The channel an ibc_channel_connect, ibc_channel_close or ibc_packet_ack
\* invocation is for.
ChannelOps == {"ibc_channel_connect", "ibc_channel_close", "ibc_packet_ack"}

EventChannel ==
    IF Op = "ibc_packet_ack" THEN AckChannel ELSE last.call.channel_id

\* C28: channel isolation.  ibc_channel_connect, ibc_channel_close and
\* ibc_packet_ack for channel c change at most the record of c: every other
\* channel id has a record after the invocation iff it had one before, with
\* the same contents, whatever the invocation returned.
C28_ChannelIsolation ==
    Op \in ChannelOps =>
        \A d \in ((DOMAIN Pre) \cup (DOMAIN Post) \cup ChannelIds)
                    \ {EventChannel} :
            /\ Registered(Post, d) <=> Registered(Pre, d)
            /\ Registered(Pre, d) => Post[d] = Pre[d]

\* C28 witness: the invocation changed the record of its own channel (wrote
\* it, reset it or removed it) while another channel held a record with an
\* address and balances, which is still there.
C28_Witness ==
    /\ Op \in ChannelOps
    /\ \/ Registered(Pre, EventChannel) # Registered(Post, EventChannel)
       \/ /\ Registered(Pre, EventChannel)
          /\ Post[EventChannel] # Pre[EventChannel]
    /\ \E d \in (DOMAIN Pre) \ {EventChannel} :
          /\ Pre[d].remote_addr # None
          /\ Pre[d].remote_balance # <<>>
          /\ Registered(Post, d)

\* C29: handle_send_funds never looks up transfer_channel_id.  With exactly
\* one coin sent and a record with a known remote_addr under
\* reflect_channel_id it succeeds, leaves the storage as it was and emits
\* one transfer of that coin to that address on transfer_channel_id, also
\* when transfer_channel_id has no record (never connected, or closed).
C29_TransferChannelUnchecked ==
    (/\ Op = "send_funds"
     /\ Len(last.call.sent_funds) = 1
     /\ Registered(Pre, last.call.reflect_channel_id)
     /\ Pre[last.call.reflect_channel_id].remote_addr # None) =>
        /\ Result = "ok"
        /\ storage = last.before
        /\ last.response.messages =
              <<Transfer(last.call.transfer_channel_id,
                         Pre[last.call.reflect_channel_id].remote_addr[1],
                         last.call.sent_funds[1], None,
                         Some(last.call.time + PACKET_LIFETIME))>>

\* C29 witness: the transfer was emitted on a channel id that has no record
\* and is not the reflect channel.
C29_Witness ==
    /\ Op = "send_funds"
    /\ Result = "ok"
    /\ last.call.transfer_channel_id # last.call.reflect_channel_id
    /\ ~Registered(Pre, last.call.transfer_channel_id)
    /\ last.response.messages[1].channel_id = last.call.transfer_channel_id

\* C29, the transfer channel was connected once and has been closed since.
C29_TransferChannelClosed ==
    /\ Op = "send_funds"
    /\ Result = "ok"
    /\ last.call.transfer_channel_id \in ChannelIds
    /\ lifecycle[last.call.transfer_channel_id] = "closed"
    /\ last.response.messages[1].channel_id = last.call.transfer_channel_id

\* The exact quotient floor(x * p / q) of the operands of the last call, in
\* unbounded integers (q # 0).
ExactFloor == (last.before.x * last.before.p) \div last.before.q

ExactDivides == (last.before.x * last.before.p) % last.before.q = 0

ExactCeil == IF ExactDivides THEN ExactFloor ELSE ExactFloor + 1

\* C30: checked_mul_floored(x, p/q) returns floor(x*p/q) of the full-width
\* product, checked_mul_ceil(x, p/q) returns that floor if q divides x*p and
\* floor + 1 otherwise; each returns an error, not a value, exactly when
\* q = 0 or its result does not fit the integer width.
C30_MulFraction ==
    /\ Op = "checked_mul_floored" =>
          IF last.before.q = 0 \/ ExactFloor >= UintModulus
          THEN ~last.response.ok
          ELSE last.response = MathOk(ExactFloor)
    /\ Op = "checked_mul_ceil" =>
          IF last.before.q = 0 \/ ExactCeil >= UintModulus
          THEN ~last.response.ok
          ELSE last.response = MathOk(ExactCeil)

\* C30 witness: a ceiling one above the floor, of a product that does not
\* fit the integer width while the quotient does.
C30_Witness ==
    /\ Op = "checked_mul_ceil"
    /\ last.before.q # 0
    /\ last.before.x * last.before.p >= UintModulus
    /\ ~ExactDivides
    /\ last.response = MathOk(ExactFloor + 1)

\* C30, a zero denominator.
C30_ZeroDenominator ==
    /\ Op \in {"checked_mul_floored", "checked_mul_ceil"}
    /\ last.before.q = 0
    /\ last.before.x * last.before.p # 0
    /\ ~last.response.ok

\* C30, the floor is the largest value of the type and the ceiling is not
\* in it.
C30_CeilDoesNotFit ==
    /\ Op = "checked_mul_ceil"
    /\ last.before.q # 0
    /\ ExactFloor = UintModulus - 1
    /\ ~ExactDivides
    /\ ~last.response.ok

\* C30, the floor itself does not fit.
C30_FloorDoesNotFit ==
    /\ Op = "checked_mul_floored"
    /\ last.before.q # 0
    /\ ExactFloor >= UintModulus
    /\ ~last.response.ok

====
